---- MODULE Spec2Model ----
(***************************************************************************)
(* Server-side verifier of simple-hmac-auth (src/src/Server.js).           *)
(*                                                                         *)
(* A JavaScript string is modelled as a sequence of atoms (TLA+ strings),  *)
(* so that split(' '), url.parse and the canonical string are computed     *)
(* from the text rather than assumed.  A JavaScript value that may be      *)
(* undefined is a tagged record: Undefined, Null, Str(s), BoolTrue, or an  *)
(* object with an optional code field.                                     *)
(***************************************************************************)
EXTENDS Integers, Sequences, FiniteSets, TLC

(* ------------------------------ bounds -------------------------------- *)
\* number of request objects of the model
NumReqs == 2
\* authenticate calls made on one request object
MaxCalls == 1
\* clock ticks after the initial time
MaxTicks == 1
\* asynchronous invocations of the callback by one delegate invocation
MaxCallbacks == 1

(* ------------------------- program constants -------------------------- *)
SecretForKeyTimeout == 10000
PermittedTimestampSkew == 60000

\* the clock advances in steps of TickMs from T0
TickMs == SecretForKeyTimeout
Reqs == 1..NumReqs

(* --------------------------- JavaScript values ------------------------ *)
Undefined == [t |-> "undefined"]
Null == [t |-> "null"]
Bool(b) == [t |-> "boolean", b |-> b]
BoolTrue == Bool(TRUE)
BoolFalse == Bool(FALSE)
Str(s) == [t |-> "string", s |-> s]
\* an object with a code field
ErrCode(c) == [t |-> "object", code |-> c]
\* an object without a code field
ErrPlain(m) == [t |-> "object", msg |-> m]
\* the exception request.on(...) raises on a request that is no event emitter
DrainError == [t |-> "object", msg |-> "TypeError: request.on is not a function"]

\* the value is an object with a code field
HasCode(v) == v.t = "object" /\ "code" \in DOMAIN v

Truthy(v) ==
  CASE v.t = "undefined" -> FALSE
    [] v.t = "null" -> FALSE
    [] v.t = "string" -> v.s # <<>>
    [] v.t = "boolean" -> v.b
    [] OTHER -> TRUE

(* ------------------------------ strings ------------------------------- *)
RECURSIVE SplitAcc(_, _, _, _)
SplitAcc(s, sep, cur, acc) ==
  IF s = <<>> THEN Append(acc, cur)
  ELSE IF Head(s) = sep THEN SplitAcc(Tail(s), sep, <<>>, Append(acc, cur))
  ELSE SplitAcc(Tail(s), sep, Append(cur, Head(s)), acc)

\* String.prototype.split(sep): the pieces between the separators, empty
\* pieces included
Split(s, sep) == SplitAcc(s, sep, <<>>, <<>>)

RECURSIVE Join(_, _)
Join(parts, sep) ==
  IF parts = <<>> THEN <<>>
  ELSE IF Len(parts) = 1 THEN parts[1]
  ELSE parts[1] \o <<sep>> \o Join(Tail(parts), sep)

RECURSIVE TrimLeft(_)
TrimLeft(s) == IF s # <<>> /\ Head(s) = " " THEN TrimLeft(Tail(s)) ELSE s

RECURSIVE TrimRight(_)
TrimRight(s) ==
  IF s # <<>> /\ s[Len(s)] = " " THEN TrimRight(SubSeq(s, 1, Len(s) - 1)) ELSE s

Trim(s) == TrimRight(TrimLeft(s))

RECURSIVE IndexFrom(_, _, _)
IndexFrom(s, a, i) ==
  IF i > Len(s) THEN 0 ELSE IF s[i] = a THEN i ELSE IndexFrom(s, a, i + 1)

\* String.prototype.indexOf, 1-based, 0 when absent
IndexOf(s, a) == IndexFrom(s, a, 1)

(* --------------------------- url, querystring ------------------------- *)
\* url.parse(u): pathname is the text before the first '?', query the text
\* after it, null when there is no '?'
UrlParse(u) ==
  LET i == IndexOf(u, "?")
  IN IF i = 0 THEN [pathname |-> u, query |-> Null]
     ELSE [pathname |-> SubSeq(u, 1, i - 1),
           query |-> Str(SubSeq(u, i + 1, Len(u)))]

\* one 'key=value' pair of a query string
PairOf(p) ==
  LET i == IndexOf(p, "=")
  IN IF i = 0 THEN [k |-> p, v |-> <<>>]
     ELSE [k |-> SubSeq(p, 1, i - 1), v |-> SubSeq(p, i + 1, Len(p))]

QueryPairs(q) ==
  IF q.t # "string" \/ q.s = <<>> THEN <<>>
  ELSE LET ps == Split(q.s, "&")
       IN [i \in 1..Len(ps) |-> PairOf(ps[i])]

\* querystring.parse(q): the object of the pairs; the first pair of a key
\* gives its value (the model's query strings repeat no key)
QuerystringParse(q) ==
  LET ps == QueryPairs(q)
      keys == {ps[i].k : i \in 1..Len(ps)}
      first(k) == CHOOSE i \in 1..Len(ps) :
                    ps[i].k = k /\ \A j \in 1..(i - 1) : ps[j].k # k
  IN [k \in keys |-> Str(ps[first(k)].v)]

\* property read obj[k] of a plain object
Get(obj, k) == IF k \in DOMAIN obj THEN obj[k] ELSE Undefined

(* ------------------------------- dates -------------------------------- *)
\* the calendar timestamps the model's date headers spell, in milliseconds
DateTable ==
  ( <<"Thu, 01 Jan 1970 00:00:40 GMT">> :> 40000 ) @@
  ( <<"Thu, 01 Jan 1970 00:01:40 GMT">> :> 100000 ) @@
  ( <<"Thu, 01 Jan 1970 00:05:00 GMT">> :> 300000 )

\* new Date(text): the timestamp in milliseconds, or an invalid date (NaN)
DateParse(text) ==
  IF text \in DOMAIN DateTable
  THEN [valid |-> TRUE, ms |-> DateTable[text]]
  ELSE [valid |-> FALSE, ms |-> 0]

\* the server's clock starts at a date of the table
T0 == DateTable[<<"Thu, 01 Jan 1970 00:01:40 GMT">>]
MaxNow == T0 + MaxTicks * TickMs

\* now - requestTime > skew; every comparison with NaN is false
OlderThanSkew(nowMs, requestTime, skew) ==
  requestTime.valid /\ nowMs - requestTime.ms > skew

(* ------------------------ canonicalize and sign ----------------------- *)
\* String.prototype.toUpperCase on the method names of the model
ToUpperCase(m) ==
  CASE m = <<"post">> -> <<"POST">>
    [] m = <<"get">> -> <<"GET">>
    [] OTHER -> m

\* encodeURIComponent on the atoms of the model
Encode(a) == IF a = " " THEN "%20" ELSE a

EncodeAll(s) == [i \in 1..Len(s) |-> Encode(s[i])]

\* the order of the query keys of the model
KeyRank(k) ==
  CASE k = <<"apiKey">> -> 1
    [] k = <<"paramA">> -> 2
    [] OTHER -> 3

RECURSIVE SortPairs(_)
SortPairs(ps) ==
  IF ps = <<>> THEN <<>>
  ELSE LET m == CHOOSE i \in 1..Len(ps) :
                  \A j \in 1..Len(ps) :
                    KeyRank(ps[i].k) < KeyRank(ps[j].k)
                    \/ (KeyRank(ps[i].k) = KeyRank(ps[j].k) /\ i <= j)
           rest == [i \in 1..(Len(ps) - 1) |-> IF i < m THEN ps[i] ELSE ps[i + 1]]
       IN <<ps[m]>> \o SortPairs(rest)

\* the query line: encoded pairs, sorted by key, joined by '&'
CanonicalQuery(q) ==
  LET ps == SortPairs(QueryPairs(q))
  IN Join([i \in 1..Len(ps) |->
             EncodeAll(ps[i].k) \o <<"=">> \o EncodeAll(ps[i].v)], "&")

\* the text a body contributes to the hash: '' for no body
BodyText(data) ==
  CASE data.t = "string" -> data.s
    [] data.t = "boolean" -> <<"true">>
    [] OTHER -> <<>>

\* hex(SHA-256(text)), kept symbolic
Sha256Hex(text) == <<"sha256(">> \o text \o <<")">>

\* the whitelisted header names in sorted order; the content headers only
\* with a non-empty body
SignedHeaderNames(headers, data) ==
  LET all == <<"content-length", "content-type", "date", "x-api-key">>
      keep(n) == /\ n \in DOMAIN headers
                 /\ (n \in {"content-length", "content-type"} => BodyText(data) # <<>>)
  IN SelectSeq(all, keep)

CanonicalHeaders(headers, data) ==
  LET names == SignedHeaderNames(headers, data)
  IN Join([i \in 1..Len(names) |-> <<names[i], ":">> \o Trim(headers[names[i]])], "\n")

\* canonicalize(method, path, query, headers, data): the five sections
\* joined by newlines
canonicalize(method, pathname, query, headers, data) ==
  Join(<< ToUpperCase(method),
          pathname,
          CanonicalQuery(query),
          CanonicalHeaders(headers, data),
          Sha256Hex(BodyText(data)) >>, "\n")

\* the supported HMAC algorithms
algorithms == { <<"sha1">>, <<"sha256">>, <<"sha512">> }

\* sign(canonical, secret, algorithm): the hex HMAC digest, kept symbolic: equal
\* digests have equal algorithm, secret and canonical string
sign(canonical, secret, algorithm) ==
  <<"hmac(">> \o algorithm \o <<";">> \o secret.s \o <<";">> \o canonical \o <<")">>

(* ------------------------------ promises ------------------------------ *)
Pending == [state |-> "pending", value |-> Undefined]

\* a reject that overwrites an earlier settlement
Reject_LastWins(p, v) == [state |-> "rejected", value |-> v]

\* resolve(v) and reject(v) of a promise: only the first settlement counts
Resolve(p, v) == IF p.state = "pending" THEN [state |-> "resolved", value |-> v] ELSE p

Reject(p, v) == IF p.state = "pending" THEN [state |-> "rejected", value |-> v] ELSE p

\* clearTimeout(timer): cancels a pending timer, otherwise does nothing
ClearTimeout(t) == IF t = "pending" THEN "cleared" ELSE t

(* ------------------------------- state -------------------------------- *)
VARIABLES
  now,          \* the server's clock, in milliseconds
  hasDelegate,  \* typeof this.secretForKey === 'function'
  live,         \* the request objects that authenticate is called on
  request,      \* request[r]: the inbound request object r and its annotations
  call,         \* call[r]: the authenticate call in flight on r: its locals,
                \* its promises, its timer and the delegate invocation it made
  obs           \* obs[r]: what has been observed of that call (history)

vars == <<now, hasDelegate, live, request, call, obs>>

(* ------------------------------ inputs -------------------------------- *)
ApiKey1 == <<"K1">>
ApiKey2 == <<"K2">>
Secret1 == <<"S1">>
Hello == <<"hello">>

Methods == { <<"POST">> }
PlainUrl == <<"/items">>
KeyUrl == <<"/items", "?", "apiKey", "=", "K2">>
\* request.query, when a framework has set it from the url
NoOwnQuery == [own |-> FALSE, obj |-> <<>>]
OwnQuery(obj) == [own |-> TRUE, obj |-> obj]
\* where a request carries its API key: the x-api-key header, the url's query
\* string, the parsed query object
KeyConfigs ==
  { [url |-> PlainUrl, query |-> NoOwnQuery, kh |-> "x-api-key" :> ApiKey1],
    [url |-> KeyUrl, query |-> NoOwnQuery, kh |-> "x-api-key" :> ApiKey1],
    [url |-> KeyUrl, query |-> NoOwnQuery, kh |-> <<>>],
    [url |-> PlainUrl, query |-> NoOwnQuery, kh |-> <<>>],
    [url |-> KeyUrl, query |-> OwnQuery(<<"apiKey">> :> Str(ApiKey2)), kh |-> <<>>],
    [url |-> PlainUrl, query |-> OwnQuery(<<>>), kh |-> <<>>] }
DateHeaders ==
  { <<>>,
    "date" :> <<"Thu, 01 Jan 1970 00:00:40 GMT">>,
    "date" :> <<"Thu, 01 Jan 1970 00:05:00 GMT">>,
    "date" :> <<"yesterday">> }
RawBodies == { Undefined, Str(Hello) }
\* the body argument of authenticate: the sentinel true or a buffered body
DataArgs == { BoolTrue, Str(Hello) }

\* the digest a client holding secret s computes over the request with body b
ClientDigest(method, url, hdrs, b, s, alg) ==
  sign(canonicalize(method, UrlParse(url).pathname, UrlParse(url).query, hdrs, b),
       Str(s), alg)

Authorization(label, alg, sig) == label \o <<" ">> \o alg \o <<" ">> \o sig

\* the authorization headers presented with a request: none, correctly
\* signed, signed over another body, signed over the text 'true', and the
\* malformed ones
AuthHeaders(method, url, hdrs) ==
  LET good == ClientDigest(method, url, hdrs, Str(Hello), Secret1, <<"sha256">>)
  IN { <<>>,
       "authorization" :> Authorization(<<"signature">>, <<"sha256">>, good),
       "authorization" :> Authorization(<<"signature">>, <<"sha256">>,
            ClientDigest(method, url, hdrs, Str(<<"bye">>), Secret1, <<"sha256">>)),
       "authorization" :> Authorization(<<"signature">>, <<"sha256">>,
            ClientDigest(method, url, hdrs, BoolTrue, Secret1, <<"sha256">>)),
       "authorization" :> Authorization(<<"signature">>, <<"md5">>, good),
       "authorization" :> Authorization(<<"bearer">>, <<"sha256">>, good),
       "authorization" :> (<<"signature", " ">> \o good),
       "authorization" :> (Authorization(<<"signature">>, <<"sha256">>, good)
                             \o <<" ", "extra">>) }

\* the request objects handed to authenticate, before any annotation
NewRequest(method, url, query, headers, rawBody) ==
  [ method |-> method, url |-> url, query |-> query, headers |-> headers,
    rawBody |-> rawBody,
    body |-> Undefined, authenticated |-> Undefined, apiKey |-> Undefined,
    secret |-> Undefined, signature |-> Undefined, signatureExpected |-> Undefined ]

SignedRequests(m, u, q, hdrs, rb) ==
  { NewRequest(m, u, q, hdrs @@ ah, rb) : ah \in AuthHeaders(m, u, hdrs) }

Requests ==
  UNION { SignedRequests(m, k.url, k.query, k.kh @@ dh, rb) :
            m \in Methods, k \in KeyConfigs, dh \in DateHeaders, rb \in RawBodies }

\* what the delegate may pass as an error and as a secret
DelegateErrors == { Undefined, Null, ErrPlain("API key not found") }
DelegateSecrets == { Undefined, Str(Secret1) }

IdleCall ==
  [ pc |-> "idle", n |-> 0, data |-> Undefined, drain |-> Pending,
    apiKey |-> Undefined, outer |-> Pending, inner |-> Pending,
    timer |-> "none", deadline |-> 0, cbLeft |-> 0, prom |-> "none" ]

NoObs ==
  [ invoked |-> 0, first |-> [ev |-> "none"], compared |-> FALSE,
    drainFailed |-> FALSE, at |-> 0 ]

(* --------------------------- the verifier ----------------------------- *)
\* what the request's stream delivers when the body is drained
WireBody == Hello

\* the request already carries its raw body: neither undefined nor null
HasRawBody(req) == req.rawBody # Undefined /\ req.rawBody # Null

\* a draining that resolves with a blank string for a request that already
\* carries its raw body
GetRawBody_Blank(req, streamOk) ==
  IF HasRawBody(req) THEN Resolve(Pending, Str(<<>>))
  ELSE IF streamOk THEN Resolve(Pending, Str(WireBody))
  ELSE Reject(Pending, DrainError)

\* _getRawBody(request): the promise of the raw body, once the request has
\* delivered it; request.on(...) raises on a request without a stream, and
\* the executor's exception rejects the promise
GetRawBody(req, streamOk) ==
  IF HasRawBody(req) THEN Resolve(Pending, req.rawBody)
  ELSE IF streamOk THEN Resolve(Pending, Str(WireBody))
  ELSE Reject(Pending, DrainError)

\* a key extraction that consults the query before the header
GetApiKey_QueryFirst(req) ==
  LET query == IF req.query.own THEN req.query.obj
               ELSE QuerystringParse(UrlParse(req.url).query)
  IN IF <<"apiKey">> \in DOMAIN query THEN query[<<"apiKey">>]
     ELSE IF "x-api-key" \in DOMAIN req.headers THEN Str(req.headers["x-api-key"])
     ELSE Undefined

\* _getApiKey(request)
GetApiKey(req) ==
  IF "x-api-key" \in DOMAIN req.headers THEN Str(req.headers["x-api-key"])
  ELSE LET query == IF req.query.own THEN req.query.obj
                    ELSE QuerystringParse(UrlParse(req.url).query)
       IN Get(query, <<"apiKey">>)

\* the callback handed to the delegate
Callback(c, err, secret) ==
  [c EXCEPT !.timer = ClearTimeout(@),
            !.inner = IF Truthy(err) \/ secret = Undefined
                      THEN Reject(@, err) ELSE Resolve(@, secret)]

\* the handlers attached to the promise the delegate returned
PromiseThen(c, secret) ==
  [c EXCEPT !.timer = ClearTimeout(@), !.inner = Resolve(@, secret)]

PromiseCatch(c, err) ==
  [c EXCEPT !.timer = ClearTimeout(@), !.inner = Reject(@, err)]

\* a timeout callback that forgets to reject
TimeoutFires_Silent(c) == [c EXCEPT !.timer = "fired"]

\* the callback of setTimeout in _getSecretForKey
TimeoutFires(c) ==
  [c EXCEPT !.timer = "fired",
            !.inner = Reject(@, ErrCode("INTERNAL_ERROR_SECRET_TIMEOUT"))]

\* the first event of the race between the delegate and the timer
NoteFirst(o, e) == IF o.first.ev = "none" THEN [o EXCEPT !.first = e] ELSE o

\* authenticate after the secret: the header, timestamp, authorization and
\* signature checks, in the order of the code. The result is the annotated
\* request, the settlement of the outer promise, and whether the signatures
\* were compared.
Rejected(req, code) ==
  [req |-> req, kind |-> "reject", value |-> ErrCode(code), compared |-> FALSE]

\* a comparison that resolves without marking the request authenticated
CheckSignature_Unmarked(req, data, apiKey, secret, algorithm, signature) ==
  LET requestURL == UrlParse(req.url)
      canonical == canonicalize(req.method, requestURL.pathname, requestURL.query,
                                req.headers, data)
      calculatedSignature == sign(canonical, secret, algorithm)
      req2 == [req EXCEPT !.signature = Str(calculatedSignature),
                          !.signatureExpected = Str(calculatedSignature)]
  IN IF signature # calculatedSignature
     THEN [req |-> req2, kind |-> "reject", value |-> ErrCode("SIGNATURE_INVALID"),
           compared |-> TRUE]
     ELSE [req |-> req2,
           kind |-> "resolve",
           value |-> [apiKey |-> apiKey, secret |-> secret, signature |-> Str(signature)],
           compared |-> TRUE]

\* a comparison that accepts every presented signature
CheckSignature_Unchecked(req, data, apiKey, secret, algorithm, signature) ==
  LET requestURL == UrlParse(req.url)
      canonical == canonicalize(req.method, requestURL.pathname, requestURL.query,
                                req.headers, data)
      calculatedSignature == sign(canonical, secret, algorithm)
      req2 == [req EXCEPT !.signature = Str(calculatedSignature),
                          !.signatureExpected = Str(calculatedSignature)]
  IN [req |-> [req2 EXCEPT !.authenticated = BoolTrue],
      kind |-> "resolve",
      value |-> [apiKey |-> apiKey, secret |-> secret, signature |-> Str(signature)],
      compared |-> TRUE]

CheckSignature(req, data, apiKey, secret, algorithm, signature) ==
  LET requestURL == UrlParse(req.url)
      canonical == canonicalize(req.method, requestURL.pathname, requestURL.query,
                                req.headers, data)
      calculatedSignature == sign(canonical, secret, algorithm)
      req2 == [req EXCEPT !.signature = Str(calculatedSignature),
                          !.signatureExpected = Str(calculatedSignature)]
  IN IF signature # calculatedSignature
     THEN [req |-> req2, kind |-> "reject", value |-> ErrCode("SIGNATURE_INVALID"),
           compared |-> TRUE]
     ELSE [req |-> [req2 EXCEPT !.authenticated = BoolTrue],
           kind |-> "resolve",
           value |-> [apiKey |-> apiKey, secret |-> secret, signature |-> Str(signature)],
           compared |-> TRUE]

\* a parsing that recomputes the signature before it tests the algorithm
CheckAuthorization_SignsFirst(req, data, apiKey, secret) ==
  LET authorizationComponents == Split(req.headers["authorization"], " ")
  IN IF Len(authorizationComponents) < 3
     THEN Rejected(req, "AUTHORIZATION_HEADER_INVALID")
     ELSE LET label == authorizationComponents[1]
              algorithm == authorizationComponents[2]
              signature == authorizationComponents[3]
              signed == CheckSignature(req, data, apiKey, secret, algorithm, signature)
          IN IF label # <<"signature">>
             THEN Rejected(req, "AUTHORIZATION_HEADER_INVALID")
             ELSE IF algorithm \notin algorithms
             THEN Rejected(signed.req, "HMAC_ALGORITHM_INVALID")
             ELSE signed

CheckAuthorization(req, data, apiKey, secret) ==
  LET authorizationComponents == Split(req.headers["authorization"], " ")
  IN IF Len(authorizationComponents) < 3
     THEN Rejected(req, "AUTHORIZATION_HEADER_INVALID")
     ELSE LET label == authorizationComponents[1]
              algorithm == authorizationComponents[2]
              signature == authorizationComponents[3]
          IN IF label # <<"signature">>
             THEN Rejected(req, "AUTHORIZATION_HEADER_INVALID")
             ELSE IF algorithm \notin algorithms
             THEN Rejected(req, "HMAC_ALGORITHM_INVALID")
             ELSE CheckSignature(req, data, apiKey, secret, algorithm, signature)

\* a freshness check with its operands exchanged
TimestampTooOld_Reversed(req, nowMs) ==
  LET requestTime == DateParse(req.headers["date"])
  IN requestTime.valid /\ requestTime.ms - nowMs > PermittedTimestampSkew

TimestampTooOld(req, nowMs) ==
  OlderThanSkew(nowMs, DateParse(req.headers["date"]), PermittedTimestampSkew)

\* a header validation that looks for the date header first
AfterSecret_DateFirst(req0, data, apiKey, secret, nowMs) ==
  LET req == [req0 EXCEPT !.secret = secret]
  IN IF "date" \notin DOMAIN req.headers
     THEN Rejected(req, "DATE_HEADER_MISSING")
     ELSE IF "authorization" \notin DOMAIN req.headers
     THEN Rejected(req, "AUTHORIZATION_HEADER_MISSING")
     ELSE IF TimestampTooOld(req, nowMs)
     THEN Rejected(req, "DATE_HEADER_INVALID")
     ELSE CheckAuthorization(req, data, apiKey, secret)

AfterSecret(req0, data, apiKey, secret, nowMs) ==
  LET req == [req0 EXCEPT !.secret = secret]
  IN IF "authorization" \notin DOMAIN req.headers
     THEN Rejected(req, "AUTHORIZATION_HEADER_MISSING")
     ELSE IF "date" \notin DOMAIN req.headers
     THEN Rejected(req, "DATE_HEADER_MISSING")
     ELSE IF TimestampTooOld(req, nowMs)
     THEN Rejected(req, "DATE_HEADER_INVALID")
     ELSE CheckAuthorization(req, data, apiKey, secret)

\* the catch block around the await of _getSecretForKey
LookupFailed(req, error) ==
  IF error = Undefined
  THEN Rejected(req, "INTERNAL_ERROR_SECRET_DISCOVERY")
  ELSE [req |-> req, kind |-> "reject", value |-> error, compared |-> FALSE]

\* a continuation that, after a failed lookup, carries on to the header
\* checks with an empty secret
AfterLookup_CarriesOn(req, data, apiKey, inner, nowMs) ==
  IF inner.state = "rejected" THEN AfterSecret(req, data, apiKey, Str(<<>>), nowMs)
  ELSE IF inner.value = Undefined THEN Rejected(req, "API_KEY_UNRECOGNIZED")
  ELSE AfterSecret(req, data, apiKey, inner.value, nowMs)

\* authenticate from the settlement of _getSecretForKey to its end
AfterLookup(req, data, apiKey, inner, nowMs) ==
  IF inner.state = "rejected" THEN LookupFailed(req, inner.value)
  ELSE IF inner.value = Undefined THEN Rejected(req, "API_KEY_UNRECOGNIZED")
  ELSE AfterSecret(req, data, apiKey, inner.value, nowMs)

Settle(p, res) ==
  IF res.kind = "resolve" THEN Resolve(p, res.value) ELSE Reject(p, res.value)

(* ------------------------------ actions ------------------------------- *)
\* an assignment to state kept on the server instead of with the call
Put_Shared(f, r, v) == [q \in DOMAIN f |-> v]

Put(f, r, v) == [f EXCEPT ![r] = v]

\* the delegate as invoked by _getSecretForKey: before it returns it may
\* invoke the callback, or throw; it may return a promise, which settles
\* later or never; it may keep the callback and invoke it later, or never
InvokeDelegate(r, req, c0, o0) ==
  LET c == [c0 EXCEPT !.timer = "pending", !.deadline = now + SecretForKeyTimeout]
      o == [o0 EXCEPT !.invoked = @ + 1]
  IN \/ \E prom \in {"none", "pending", "never"}, cb \in {0, MaxCallbacks} :
          /\ prom = "never" => cb = 0
          /\ call' = Put(call, r, [c EXCEPT !.prom = prom, !.cbLeft = cb])
          /\ obs' = Put(obs, r, o)
          /\ request' = Put(request, r, req)
     \/ \E err \in DelegateErrors, secret \in DelegateSecrets :
          /\ call' = Put(call, r, Callback(c, err, secret))
          /\ obs' = Put(obs, r, NoteFirst(o, [ev |-> "callback", err |-> err, secret |-> secret]))
          /\ request' = Put(request, r, req)
     \/ \E err \in DelegateErrors :
          /\ call' = Put(call, r, [c EXCEPT !.inner = Reject(@, err)])
          /\ obs' = Put(obs, r, NoteFirst(o, [ev |-> "throw", err |-> err]))
          /\ request' = Put(request, r, req)

\* a lookup without delegate that arms the timer and waits for it
MissingDelegate_StartsTimer(c) ==
  [c EXCEPT !.timer = "pending", !.deadline = now + SecretForKeyTimeout]

\* _getSecretForKey when secretForKey is no function: the promise is
\* rejected before the timer is created
MissingDelegate(c) ==
  [c EXCEPT !.inner = Reject(@, ErrPlain("Missing secretForKey function"))]

\* authenticate from the key extraction to the await of _getSecretForKey
KeyAndLookup(r, req, c, o) ==
  LET apiKey == GetApiKey(req)
  IN IF apiKey = Undefined
     THEN /\ request' = Put(request, r, req)
          /\ call' = Put(call, r, [c EXCEPT !.pc = "done",
                                           !.outer = Reject(@, ErrCode("API_KEY_MISSING"))])
          /\ obs' = Put(obs, r, [o EXCEPT !.at = now])
     ELSE LET req1 == [req EXCEPT !.apiKey = apiKey]
              c1 == [c EXCEPT !.pc = "awaitSecret", !.apiKey = apiKey]
          IN IF ~hasDelegate
             THEN /\ request' = Put(request, r, req1)
                  /\ call' = Put(call, r, MissingDelegate(c1))
                  /\ obs' = Put(obs, r, o)
             ELSE InvokeDelegate(r, req1, c1, o)

\* authenticate(request, data), up to its first await
Authenticate(r, data) ==
  /\ r \in live
  /\ call[r].pc \in {"idle", "done"}
  /\ call[r].n < MaxCalls
  /\ now + SecretForKeyTimeout <= MaxNow
  /\ HasRawBody(request[r]) => data = BoolTrue
  /\ LET req == [request[r] EXCEPT !.authenticated = BoolFalse]
         c == [IdleCall EXCEPT !.n = call[r].n + 1, !.data = data]
     IN IF data = BoolTrue
        THEN \E streamOk \in BOOLEAN :
               /\ (HasRawBody(req) => streamOk)
               /\ request' = Put(request, r, req)
               /\ call' = Put(call, r, [c EXCEPT !.pc = "draining",
                                                !.drain = GetRawBody(req, streamOk)])
               /\ obs' = Put(obs, r, NoObs)
        ELSE KeyAndLookup(r, req, c, NoObs)
  /\ UNCHANGED <<now, hasDelegate, live>>

\* authenticate resumes after the await of _getRawBody
AfterDrain(r) ==
  /\ call[r].pc = "draining"
  /\ LET c == call[r]
     IN IF c.drain.state = "resolved"
        THEN KeyAndLookup(r, [request[r] EXCEPT !.body = c.drain.value],
                          [c EXCEPT !.data = c.drain.value], obs[r])
        ELSE KeyAndLookup(r, request[r],
                          [c EXCEPT !.outer = Reject(@, c.drain.value)],
                          [obs[r] EXCEPT !.drainFailed = TRUE])
  /\ UNCHANGED <<now, hasDelegate, live>>

\* a continuation of authenticate is queued as a microtask: it runs before any
\* timer and before time passes; a draining that listens to the stream waits
\* for its 'end' event, and time may pass before it
MicrotaskReady(r) ==
  \/ call[r].pc = "awaitSecret" /\ call[r].inner.state # "pending"
  \/ /\ call[r].pc = "draining"
     /\ (HasRawBody(request[r]) \/ call[r].drain.state = "rejected")

\* the delegate invokes the callback after it has returned
DelegateCallback(r, err, secret) ==
  /\ call[r].cbLeft > 0
  /\ call' = Put(call, r, [Callback(call[r], err, secret) EXCEPT !.cbLeft = @ - 1])
  /\ obs' = Put(obs, r, NoteFirst(obs[r], [ev |-> "callback", err |-> err, secret |-> secret]))
  /\ UNCHANGED <<now, hasDelegate, live, request>>

\* the promise the delegate returned resolves
DelegateResolves(r, secret) ==
  /\ call[r].prom = "pending"
  /\ call' = Put(call, r, [PromiseThen(call[r], secret) EXCEPT !.prom = "settled"])
  /\ obs' = Put(obs, r, NoteFirst(obs[r], [ev |-> "resolved", secret |-> secret]))
  /\ UNCHANGED <<now, hasDelegate, live, request>>

\* the promise the delegate returned rejects
DelegateRejects(r, err) ==
  /\ call[r].prom = "pending"
  /\ call' = Put(call, r, [PromiseCatch(call[r], err) EXCEPT !.prom = "settled"])
  /\ obs' = Put(obs, r, NoteFirst(obs[r], [ev |-> "rejected", err |-> err]))
  /\ UNCHANGED <<now, hasDelegate, live, request>>

\* the timeout of _getSecretForKey fires
TimerFire(r) ==
  /\ call[r].timer = "pending"
  /\ now >= call[r].deadline
  /\ \A q \in Reqs : ~MicrotaskReady(q)
  /\ call' = Put(call, r, TimeoutFires(call[r]))
  /\ obs' = Put(obs, r, NoteFirst(obs[r], [ev |-> "timeout"]))
  /\ UNCHANGED <<now, hasDelegate, live, request>>

\* authenticate resumes after the await of _getSecretForKey and runs to its end
Continue(r) ==
  /\ call[r].pc = "awaitSecret"
  /\ call[r].inner.state # "pending"
  /\ LET c == call[r]
         res == AfterLookup(request[r], c.data, c.apiKey, c.inner, now)
     IN /\ request' = Put(request, r, res.req)
        /\ call' = Put(call, r, [c EXCEPT !.pc = "done", !.outer = Settle(@, res)])
        /\ obs' = Put(obs, r, [obs[r] EXCEPT !.compared = res.compared, !.at = now])
  /\ UNCHANGED <<now, hasDelegate, live>>

\* time passes, up to MaxNow and as long as a timer is still to come due
Tick ==
  /\ \/ now < MaxNow
     \/ \E q \in Reqs : call[q].timer = "pending" /\ now < call[q].deadline
  /\ \A q \in Reqs : ~MicrotaskReady(q)
  /\ now' = now + TickMs
  /\ UNCHANGED <<hasDelegate, live, request, call, obs>>

Init ==
  /\ now = T0
  /\ hasDelegate \in BOOLEAN
  /\ live = {1}
  /\ \E q \in Requests : request = [r \in Reqs |-> q]
  /\ call = [r \in Reqs |-> IdleCall]
  /\ obs = [r \in Reqs |-> NoObs]

Next ==
  \/ \E r \in Reqs, data \in DataArgs : Authenticate(r, data)
  \/ \E r \in Reqs : AfterDrain(r)
  \/ \E r \in Reqs, err \in DelegateErrors, secret \in DelegateSecrets :
       DelegateCallback(r, err, secret)
  \/ \E r \in Reqs, secret \in DelegateSecrets : DelegateResolves(r, secret)
  \/ \E r \in Reqs, err \in DelegateErrors : DelegateRejects(r, err)
  \/ \E r \in Reqs : TimerFire(r)
  \/ \E r \in Reqs : Continue(r)
  \/ Tick

Spec == Init /\ [][Next]_vars

\* the lookups of a server with a delegate, on the correctly signed requests
\* that carry their key in the x-api-key header
LookupHeaders ==
  ("x-api-key" :> ApiKey1) @@ ("date" :> <<"Thu, 01 Jan 1970 00:00:40 GMT">>)

LookupRequests ==
  { NewRequest(m, PlainUrl, NoOwnQuery,
               LookupHeaders @@
                 ("authorization" :>
                    Authorization(<<"signature">>, <<"sha256">>,
                       ClientDigest(m, PlainUrl, LookupHeaders, Str(Hello), Secret1,
                                    <<"sha256">>))),
               rb) :
      m \in Methods, rb \in RawBodies }

LookupInit ==
  /\ now = T0
  /\ hasDelegate = TRUE
  /\ live = {1}
  /\ \E q \in LookupRequests : request = [r \in Reqs |-> q]
  /\ call = [r \in Reqs |-> IdleCall]
  /\ obs = [r \in Reqs |-> NoObs]

\* the scheduling of the event loop: queued continuations run, due timers
\* fire, and time passes; nothing obliges the request's stream to end, so the
\* continuation of a draining is owed only once it is queued
FairSpec ==
  /\ LookupInit /\ [][Next]_vars
  /\ WF_vars(Tick)
  /\ \A r \in Reqs : WF_vars(TimerFire(r))
  /\ \A r \in Reqs : WF_vars(Continue(r))
  /\ \A r \in Reqs : WF_vars(MicrotaskReady(r) /\ AfterDrain(r))

\* a request that carries its raw body and a digest computed over the body b
ConcurrentRequest(m, b) ==
  NewRequest(m, PlainUrl, NoOwnQuery,
             LookupHeaders @@
               ("authorization" :>
                  Authorization(<<"signature">>, <<"sha256">>,
                     ClientDigest(m, PlainUrl, LookupHeaders, Str(b), Secret1,
                                  <<"sha256">>))),
             Str(Hello))

\* two authenticate calls in flight on two request objects of one server: a
\* correctly signed request and a request signed over another body
ConcurrentInit ==
  /\ now = T0
  /\ hasDelegate = TRUE
  /\ live = {1, 2}
  /\ \E m \in Methods :
       request = [r \in Reqs |-> IF r = 1 THEN ConcurrentRequest(m, Hello)
                                 ELSE ConcurrentRequest(m, <<"bye">>)]
  /\ call = [r \in Reqs |-> IdleCall]
  /\ obs = [r \in Reqs |-> NoObs]

\* the steps of that scenario: authenticate is called once on each request
\* object, and the calls, their lookups, their timers and their continuations
\* interleave
ConcurrentNext ==
  \/ \E r \in Reqs, data \in DataArgs : call[r].pc = "idle" /\ Authenticate(r, data)
  \/ \E r \in Reqs : AfterDrain(r)
  \/ \E r \in Reqs, err \in DelegateErrors, secret \in DelegateSecrets :
       DelegateCallback(r, err, secret)
  \/ \E r \in Reqs, secret \in DelegateSecrets : DelegateResolves(r, secret)
  \/ \E r \in Reqs, err \in DelegateErrors : DelegateRejects(r, err)
  \/ \E r \in Reqs : TimerFire(r)
  \/ \E r \in Reqs : Continue(r)
  \/ Tick

ConcurrentSpec == ConcurrentInit /\ [][ConcurrentNext]_vars

(* ----------------------- vocabulary of the claims --------------------- *)
Done(r) == r \in live /\ call[r].pc = "done"

\* the body reached authenticate: it was passed buffered, or drained
BodyAcquired(r) == ~obs[r].drainFailed

RejectedWith(r, code) ==
  call[r].outer = [state |-> "rejected", value |-> ErrCode(code)]

ResolvedCall(r) == call[r].outer.state = "resolved"

HasHeader(r, name) == name \in DOMAIN request[r].headers

\* the API key parameter of the url's query string
UrlApiKey(r) ==
  Get(QuerystringParse(UrlParse(request[r].url).query), <<"apiKey">>)

\* the delegate yielded a defined secret as the first event of its race
\* against the timeout
SecretYielded(r) ==
  /\ call[r].inner.state = "resolved"
  /\ call[r].inner.value # Undefined

AuthTokens(r) == Split(request[r].headers["authorization"], " ")

\* the signature recomputed over the server's view of the request, with the
\* secret s and the algorithm alg
Recomputed(r, s, alg) ==
  sign(canonicalize(request[r].method, UrlParse(request[r].url).pathname,
                    UrlParse(request[r].url).query, request[r].headers,
                    call[r].data), s, alg)

\* now - requestTime at the time authenticate read the clock, for a date
\* header that spells a timestamp
ValidDate(r) ==
  HasHeader(r, "date") /\ request[r].headers["date"] \in DOMAIN DateTable

Age(r) == obs[r].at - DateTable[request[r].headers["date"]]

Abs(x) == IF x < 0 THEN 0 - x ELSE x

\* the request passes every check before the comparison of the signatures
ReachesComparison(r) ==
  /\ Done(r) /\ BodyAcquired(r)
  /\ (HasHeader(r, "x-api-key") \/ UrlApiKey(r) # Undefined)
  /\ SecretYielded(r)
  /\ HasHeader(r, "authorization") /\ HasHeader(r, "date")
  /\ ~(ValidDate(r) /\ Age(r) > PermittedTimestampSkew)
  /\ Len(AuthTokens(r)) >= 3
  /\ AuthTokens(r)[1] = <<"signature">>
  /\ AuthTokens(r)[2] \in algorithms

(* ------------------------------- claims ------------------------------- *)
\* C1: a request with a key, a defined secret yielded before the timeout,
\* both headers, a date within the skew window, an authorization header
\* 'signature <supported algorithm> <sig>' and <sig> equal to the signature
\* of its canonical form under the secret resolves with {apiKey, secret,
\* signature}: the extracted key, the resolved secret, the presented
\* signature; and request.authenticated is true.
C1_Precondition(r) ==
  /\ Done(r) /\ BodyAcquired(r)
  /\ (HasHeader(r, "x-api-key") \/ UrlApiKey(r) # Undefined)
  /\ SecretYielded(r)
  /\ HasHeader(r, "authorization") /\ HasHeader(r, "date")
  /\ ValidDate(r) /\ Abs(Age(r)) <= PermittedTimestampSkew
  /\ Len(AuthTokens(r)) = 3
  /\ AuthTokens(r)[1] = <<"signature">>
  /\ AuthTokens(r)[2] \in algorithms
  /\ AuthTokens(r)[3] = Recomputed(r, call[r].inner.value, AuthTokens(r)[2])

C1_ValidRequestResolves ==
  \A r \in Reqs :
    C1_Precondition(r) =>
      /\ call[r].outer =
           [ state |-> "resolved",
             value |-> [ apiKey |-> IF HasHeader(r, "x-api-key")
                                    THEN Str(request[r].headers["x-api-key"])
                                    ELSE UrlApiKey(r),
                         secret |-> call[r].inner.value,
                         signature |-> Str(AuthTokens(r)[3]) ] ]
      /\ request[r].authenticated = BoolTrue

\* a valid call that passed the sentinel true and drained the body itself
C1_Witness ==
  \E r \in Reqs :
    C1_Precondition(r) /\ ResolvedCall(r) /\ request[r].body = Str(WireBody)

\* C2: a request that passes every earlier check and whose presented
\* signature differs from the signature recomputed over the server's view of
\* the request is rejected with SIGNATURE_INVALID; and no call resolves
\* unless the presented signature equals the recomputed one.
C2_Mismatch(r) ==
  /\ ReachesComparison(r)
  /\ AuthTokens(r)[3] # Recomputed(r, call[r].inner.value, AuthTokens(r)[2])

C2_MismatchRejected ==
  \A r \in Reqs :
    /\ C2_Mismatch(r) =>
         /\ RejectedWith(r, "SIGNATURE_INVALID")
         /\ request[r].authenticated # BoolTrue
    /\ ResolvedCall(r) =>
         /\ HasHeader(r, "authorization")
         /\ Len(AuthTokens(r)) >= 3
         /\ SecretYielded(r)
         /\ AuthTokens(r)[3] = Recomputed(r, call[r].inner.value, AuthTokens(r)[2])

C2_Witness ==
  \E r \in Reqs : C2_Mismatch(r) /\ RejectedWith(r, "SIGNATURE_INVALID")

\* C3: request.authenticated is true exactly when the most recent
\* authenticate call on the request resolved; a call whose promise rejected
\* never leaves request.authenticated = true.
C3_NoPartialAuthentication ==
  \A r \in Reqs :
    request[r].authenticated = BoolTrue <=> (Done(r) /\ ResolvedCall(r))

\* C4: a correctly signed request with a recognized key whose date header is
\* older than the permitted skew before the server's time is rejected with
\* DATE_HEADER_INVALID, and its signature is never compared.
C4_Stale(r) ==
  /\ Done(r) /\ BodyAcquired(r)
  /\ (HasHeader(r, "x-api-key") \/ UrlApiKey(r) # Undefined)
  /\ SecretYielded(r)
  /\ HasHeader(r, "authorization")
  /\ Len(AuthTokens(r)) = 3
  /\ AuthTokens(r)[1] = <<"signature">>
  /\ AuthTokens(r)[2] \in algorithms
  /\ AuthTokens(r)[3] = Recomputed(r, call[r].inner.value, AuthTokens(r)[2])
  /\ ValidDate(r) /\ Age(r) > PermittedTimestampSkew

C4_ReplayRejected ==
  \A r \in Reqs :
    C4_Stale(r) =>
      /\ RejectedWith(r, "DATE_HEADER_INVALID")
      /\ ~obs[r].compared
      /\ request[r].authenticated # BoolTrue

C4_Witness ==
  \E r \in Reqs : C4_Stale(r) /\ RejectedWith(r, "DATE_HEADER_INVALID")

\* C5: a request that reaches the timestamp step with |now - requestTime|
\* above the skew window, in the past or in the future, is rejected with
\* DATE_HEADER_INVALID; a call resolves only with |now - requestTime| within
\* the window.
C5_ReachesTimestamp(r) ==
  /\ Done(r) /\ BodyAcquired(r)
  /\ SecretYielded(r)
  /\ HasHeader(r, "authorization") /\ HasHeader(r, "date")
  /\ ValidDate(r)

C5_AbsoluteSkew ==
  \A r \in Reqs :
    /\ (C5_ReachesTimestamp(r) /\ Abs(Age(r)) > PermittedTimestampSkew)
         => RejectedWith(r, "DATE_HEADER_INVALID")
    /\ (Done(r) /\ ResolvedCall(r) /\ ValidDate(r))
         => Abs(Age(r)) <= PermittedTimestampSkew

\* C6: a delegate that signals 'not found', by calling back with no error
\* and no secret or by resolving its promise with undefined, makes
\* authenticate reject with API_KEY_UNRECOGNIZED.
C6_NotFound(r) ==
  /\ Done(r) /\ BodyAcquired(r)
  /\ \/ obs[r].first = [ev |-> "callback", err |-> Undefined, secret |-> Undefined]
     \/ obs[r].first = [ev |-> "resolved", secret |-> Undefined]

C6_NotFoundUnrecognized ==
  \A r \in Reqs : C6_NotFound(r) => RejectedWith(r, "API_KEY_UNRECOGNIZED")

\* C7: a delegate that errors, by calling back with an error, by rejecting
\* its promise or by throwing, makes authenticate reject with
\* INTERNAL_ERROR_SECRET_DISCOVERY, whatever the error value.
C7_DelegateErrs(r) ==
  /\ Done(r) /\ BodyAcquired(r)
  /\ \/ obs[r].first.ev = "callback" /\ Truthy(obs[r].first.err)
     \/ obs[r].first.ev \in {"rejected", "throw"}

C7_DelegateFailureCode ==
  \A r \in Reqs :
    C7_DelegateErrs(r) => RejectedWith(r, "INTERNAL_ERROR_SECRET_DISCOVERY")

\* C8: with a delegate configured that never settles, authenticate
\* eventually rejects with INTERNAL_ERROR_SECRET_TIMEOUT, and not before
\* secretForKeyTimeout has elapsed since the lookup began.
C8_Stalled(r) ==
  /\ r \in live /\ BodyAcquired(r)
  /\ call[r].pc = "awaitSecret" /\ obs[r].invoked > 0
  /\ call[r].inner.state = "pending"
  /\ call[r].cbLeft = 0 /\ call[r].prom \in {"none", "never"}

C8_TimedOut(r) == Done(r) /\ RejectedWith(r, "INTERNAL_ERROR_SECRET_TIMEOUT")

C8_TimeoutLiveness ==
  /\ \A r \in Reqs : C8_Stalled(r) ~> C8_TimedOut(r)
  /\ [](\A r \in Reqs : C8_TimedOut(r) => obs[r].at >= call[r].deadline)

C8_Witness ==
  \E r \in Reqs :
    /\ C8_TimedOut(r) /\ obs[r].first.ev = "timeout"
    /\ call[r].cbLeft = 0 /\ call[r].prom \in {"none", "never"}

\* C9: the lookup settles with the outcome of the first event among the
\* timer, the callback and the delegate's promise; the outer promise settles
\* once; events after the first change neither the outcome nor the request,
\* and after a timeout no delegate result sets request.secret or
\* request.authenticated.
C9_FirstOutcome(e) ==
  CASE e.ev = "timeout" ->
         [state |-> "rejected", value |-> ErrCode("INTERNAL_ERROR_SECRET_TIMEOUT")]
    [] e.ev \in {"rejected", "throw"} -> [state |-> "rejected", value |-> e.err]
    [] e.ev = "resolved" -> [state |-> "resolved", value |-> e.secret]
    [] e.ev = "callback" /\ Truthy(e.err) -> [state |-> "rejected", value |-> e.err]
    [] OTHER -> [state |-> "resolved", value |-> e.secret]

\* the events whose outcome their arguments state
C9_Decided(e) ==
  /\ e.ev # "none"
  /\ e.ev = "callback" /\ ~Truthy(e.err) => e.secret # Undefined

C9_FirstHolds(r) ==
  /\ C9_Decided(obs[r].first) => call[r].inner = C9_FirstOutcome(obs[r].first)
  /\ obs[r].first.ev # "none" => call[r].inner.state # "pending"
  /\ (obs[r].invoked > 0 /\ obs[r].first.ev = "none") => call[r].inner.state = "pending"
  /\ (Done(r) /\ BodyAcquired(r) /\ C9_Decided(obs[r].first)) =>
       LET out == C9_FirstOutcome(obs[r].first)
       IN /\ (out.state = "rejected" /\ out.value # Undefined) =>
               call[r].outer = out
          /\ (out.state = "resolved" /\ out.value # Undefined) =>
               request[r].secret = out.value

C9_SameCall(r) == call'[r].n = call[r].n

C9_LateEventsIgnored(r) ==
  /\ (call[r].outer.state # "pending" /\ C9_SameCall(r)) =>
       call'[r].outer = call[r].outer
  /\ (call[r].pc = "done" /\ C9_SameCall(r)) => request'[r] = request[r]
  /\ (obs[r].first.ev = "timeout" /\ C9_SameCall(r)) =>
       /\ request'[r].secret = request[r].secret
       /\ request'[r].authenticated = request[r].authenticated

C9_FirstSettlementWins ==
  /\ [](\A r \in Reqs : C9_FirstHolds(r))
  /\ [][\A r \in Reqs : C9_LateEventsIgnored(r)]_vars

\* the delegate's promise settled after the timeout had fired
C9_Witness ==
  \E r \in Reqs :
    /\ Done(r) /\ obs[r].first.ev = "timeout" /\ call[r].prom = "settled"
    /\ RejectedWith(r, "INTERNAL_ERROR_SECRET_TIMEOUT")

\* C10: the API key is the x-api-key header when present, otherwise the
\* apiKey query parameter; with neither, authenticate rejects with
\* API_KEY_MISSING, the delegate is never invoked, and request.apiKey and
\* request.secret are not set.
C10_Extracted(r) == r \in live /\ call[r].pc \in {"awaitSecret", "done"}

C10_KeyExtraction ==
  \A r \in Reqs :
    C10_Extracted(r) =>
      LET expected == IF HasHeader(r, "x-api-key")
                      THEN Str(request[r].headers["x-api-key"])
                      ELSE UrlApiKey(r)
      IN /\ expected # Undefined =>
              /\ call[r].apiKey = expected
              /\ request[r].apiKey = expected
         /\ expected = Undefined =>
              /\ Done(r)
              /\ BodyAcquired(r) => RejectedWith(r, "API_KEY_MISSING")
              /\ call[r].outer.state = "rejected"
              /\ obs[r].invoked = 0
              /\ call[r].timer = "none"
              /\ request[r].apiKey = Undefined
              /\ request[r].secret = Undefined

C10_Witness ==
  \E r \in Reqs :
    /\ Done(r) /\ RejectedWith(r, "API_KEY_MISSING")
    /\ ~HasHeader(r, "x-api-key") /\ UrlApiKey(r) = Undefined

\* C11: once the secret is resolved, a request without authorization header
\* is rejected with AUTHORIZATION_HEADER_MISSING, and a request with an
\* authorization header and without date header is rejected with
\* DATE_HEADER_MISSING; a request that lacks either header is never
\* authenticated.
C11_SecretResolved(r) == Done(r) /\ BodyAcquired(r) /\ SecretYielded(r)

C11_HeaderPresence ==
  \A r \in Reqs :
    /\ (C11_SecretResolved(r) /\ ~HasHeader(r, "authorization")) =>
         RejectedWith(r, "AUTHORIZATION_HEADER_MISSING")
    /\ (C11_SecretResolved(r) /\ HasHeader(r, "authorization")
           /\ ~HasHeader(r, "date")) =>
         RejectedWith(r, "DATE_HEADER_MISSING")
    /\ (~HasHeader(r, "authorization") \/ ~HasHeader(r, "date")) =>
         /\ request[r].authenticated # BoolTrue
         /\ ~ResolvedCall(r)

\* a request that lacks both headers
C11_Witness ==
  \E r \in Reqs :
    /\ C11_SecretResolved(r)
    /\ ~HasHeader(r, "authorization") /\ ~HasHeader(r, "date")
    /\ RejectedWith(r, "AUTHORIZATION_HEADER_MISSING")

\* the request reaches the parsing of its authorization header
ReachesParsing(r) ==
  /\ Done(r) /\ BodyAcquired(r)
  /\ SecretYielded(r)
  /\ HasHeader(r, "authorization") /\ HasHeader(r, "date")
  /\ ~(ValidDate(r) /\ Age(r) > PermittedTimestampSkew)

\* C12: an authorization header that does not split into exactly three
\* space-separated tokens, or whose first token is not 'signature', is
\* rejected with AUTHORIZATION_HEADER_INVALID, and its request is never
\* authenticated.
C12_Malformed(r) ==
  /\ HasHeader(r, "authorization")
  /\ (Len(AuthTokens(r)) # 3 \/ AuthTokens(r)[1] # <<"signature">>)

C12_ExactlyThreeTokens ==
  \A r \in Reqs :
    /\ (ReachesParsing(r) /\ C12_Malformed(r)) =>
         RejectedWith(r, "AUTHORIZATION_HEADER_INVALID")
    /\ C12_Malformed(r) =>
         /\ request[r].authenticated # BoolTrue
         /\ ~ResolvedCall(r)

\* C13: a well-formed authorization header whose algorithm is not supported
\* is rejected with HMAC_ALGORITHM_INVALID before anything is canonicalized
\* or signed: request.signature and request.signatureExpected are not set.
C13_Unsupported(r) ==
  /\ HasHeader(r, "authorization")
  /\ LET tokens == AuthTokens(r)
     IN /\ Len(tokens) = 3
        /\ tokens[1] = <<"signature">>
        /\ tokens[2] \notin algorithms

C13_UnsupportedAlgorithm ==
  \A r \in Reqs :
    (Done(r) /\ C13_Unsupported(r)) =>
      /\ ReachesParsing(r) => RejectedWith(r, "HMAC_ALGORITHM_INVALID")
      /\ ~obs[r].compared
      /\ request[r].signature = Undefined
      /\ request[r].signatureExpected = Undefined
      /\ request[r].authenticated # BoolTrue

C13_Witness ==
  \E r \in Reqs :
    /\ ReachesParsing(r) /\ C13_Unsupported(r)
    /\ RejectedWith(r, "HMAC_ALGORITHM_INVALID")

\* C14: every rejection of authenticate on a request whose body was
\* acquired, whatever the request and whatever the delegate does (no
\* delegate, a callback or a rejection with the delegate's own error, a
\* timeout, missing or malformed headers, a stale date, a bad signature),
\* carries an object with a defined code field.
C14_EveryRejectionHasCode ==
  \A r \in Reqs :
    (BodyAcquired(r) /\ call[r].outer.state = "rejected") =>
      HasCode(call[r].outer.value)

\* C15: without a secretForKey delegate, authenticate on a request that
\* carries an API key rejects with the error 'Missing secretForKey function';
\* no timer is started, nothing is invoked, and no time passes between the
\* lookup and the rejection.
C15_NoDelegate(r) ==
  /\ r \in live /\ ~hasDelegate
  /\ call[r].pc \in {"awaitSecret", "done"}
  /\ call[r].apiKey # Undefined

C15_MissingDelegateError == ErrPlain("Missing secretForKey function")

C15_RejectsAtOnce(r) ==
  C15_NoDelegate(r) =>
    /\ call[r].inner = [state |-> "rejected", value |-> C15_MissingDelegateError]
    /\ call[r].timer = "none"
    /\ obs[r].invoked = 0
    /\ (Done(r) /\ BodyAcquired(r)) =>
         call[r].outer = [state |-> "rejected", value |-> C15_MissingDelegateError]

C15_NoWaiting ==
  (\E r \in Reqs : C15_NoDelegate(r) /\ call[r].pc = "awaitSecret") => now' = now

C15_MissingDelegateFailsFast ==
  /\ [](\A r \in Reqs : C15_RejectsAtOnce(r))
  /\ [][C15_NoWaiting]_vars

C15_Witness ==
  \E r \in Reqs :
    /\ C15_NoDelegate(r) /\ Done(r)
    /\ call[r].outer = [state |-> "rejected", value |-> C15_MissingDelegateError]

\* C16: the checks run in the order key extraction, secret resolution,
\* authorization header presence, date header presence, timestamp freshness,
\* authorization parsing (token count, label, algorithm), signature
\* comparison; the rejection code is that of the earliest check the request
\* violates, and no later step runs after it: the delegate is not invoked
\* after a missing key, and nothing is signed after an earlier failure.
C16_Earliest(r) ==
  IF ~HasHeader(r, "x-api-key") /\ UrlApiKey(r) = Undefined THEN "API_KEY_MISSING"
  ELSE IF ~SecretYielded(r) THEN "LOOKUP"
  ELSE IF ~HasHeader(r, "authorization") THEN "AUTHORIZATION_HEADER_MISSING"
  ELSE IF ~HasHeader(r, "date") THEN "DATE_HEADER_MISSING"
  ELSE IF ValidDate(r) /\ Abs(Age(r)) > PermittedTimestampSkew
  THEN "DATE_HEADER_INVALID"
  ELSE IF Len(AuthTokens(r)) # 3 \/ AuthTokens(r)[1] # <<"signature">>
  THEN "AUTHORIZATION_HEADER_INVALID"
  ELSE IF AuthTokens(r)[2] \notin algorithms THEN "HMAC_ALGORITHM_INVALID"
  ELSE IF AuthTokens(r)[3] # Recomputed(r, call[r].inner.value, AuthTokens(r)[2])
  THEN "SIGNATURE_INVALID"
  ELSE "NONE"

C16_FailFastOrder ==
  \A r \in Reqs :
    (Done(r) /\ BodyAcquired(r)) =>
      LET e == C16_Earliest(r)
      IN /\ e = "NONE" => ResolvedCall(r)
         /\ e = "LOOKUP" => call[r].outer.state = "rejected"
         /\ e \notin {"NONE", "LOOKUP"} => RejectedWith(r, e)
         /\ e = "API_KEY_MISSING" => obs[r].invoked = 0
         /\ e \notin {"NONE", "SIGNATURE_INVALID"} => ~obs[r].compared

\* C17: once the signatures have been compared, with either result,
\* request.signatureExpected is the signature the server recomputed and
\* request.signature is the signature presented in the authorization header.
C17_BothSignatures ==
  \A r \in Reqs :
    (Done(r) /\ obs[r].compared) =>
      /\ request[r].signatureExpected =
           Str(Recomputed(r, call[r].inner.value, AuthTokens(r)[2]))
      /\ request[r].signature = Str(AuthTokens(r)[3])

\* C18 as stated: authenticate writes only apiKey, secret, authenticated and
\* the two signature fields of the request; method, url, headers, query and
\* body never change, with a buffered body and with the sentinel true.
C18_InputsKept(r) ==
  /\ request'[r].method = request[r].method
  /\ request'[r].url = request[r].url
  /\ request'[r].headers = request[r].headers
  /\ request'[r].query = request[r].query
  /\ request'[r].rawBody = request[r].rawBody

C18_OnlyAnnotations ==
  [][\A r \in Reqs : C18_InputsKept(r) /\ request'[r].body = request[r].body]_vars

\* C18 amended: method, url, headers and query never change; body changes
\* only in a call with the sentinel true, when the draining has succeeded,
\* and then it becomes the drained body.
C18_Drained(r) ==
  IF HasRawBody(request[r])
  THEN request[r].rawBody
  ELSE Str(WireBody)

C18_BodyWrite(r) ==
  request'[r].body # request[r].body =>
    /\ call[r].pc = "draining" /\ call[r].data = BoolTrue
    /\ call[r].drain.state = "resolved"
    /\ request'[r].body = C18_Drained(r)

C18_FrameWithBody ==
  [][\A r \in Reqs : C18_InputsKept(r) /\ C18_BodyWrite(r)]_vars

\* a call with the sentinel true that ran to the comparison of the signatures
C18_Witness ==
  \E r \in Reqs :
    /\ Done(r) /\ obs[r].compared
    /\ request[r].body = C18_Drained(r)
    /\ request[r].apiKey # Undefined /\ request[r].secret # Undefined
    /\ request[r].signatureExpected # Undefined

\* C19: one authenticate call invokes the delegate at most once; when the
\* lookup has failed or timed out, the call ends with the lookup's rejection
\* (INTERNAL_ERROR_SECRET_DISCOVERY for an undefined error), no signature is
\* compared, and the ended call neither resumes nor invokes the delegate again.
C19_LookupFailed(r) ==
  /\ Done(r) /\ BodyAcquired(r)
  /\ obs[r].invoked > 0
  /\ call[r].inner.state = "rejected"

C19_Surfaced(r) ==
  /\ obs[r].invoked <= 1
  /\ C19_LookupFailed(r) =>
       /\ call[r].outer =
            [ state |-> "rejected",
              value |-> IF call[r].inner.value = Undefined
                        THEN ErrCode("INTERNAL_ERROR_SECRET_DISCOVERY")
                        ELSE call[r].inner.value ]
       /\ ~obs[r].compared
       /\ request[r].authenticated # BoolTrue

C19_Terminal(r) ==
  call'[r].n = call[r].n =>
    /\ obs[r].invoked > 0 => obs'[r].invoked = obs[r].invoked
    /\ call[r].pc = "done" => call'[r].pc = "done"

C19_NoRetries ==
  /\ [](\A r \in Reqs : C19_Surfaced(r))
  /\ [][\A r \in Reqs : C19_Terminal(r)]_vars

\* a lookup that timed out on a request that would fail the next check
C19_Witness ==
  \E r \in Reqs :
    /\ C19_LookupFailed(r) /\ obs[r].first.ev = "timeout"
    /\ ~HasHeader(r, "authorization")
    /\ RejectedWith(r, "INTERNAL_ERROR_SECRET_TIMEOUT")

\* C20: with two authenticate calls in flight on two request objects of one
\* server, interleaved in every way, each call's lookup settles by its own
\* first event, each call's outcome and the annotations of its request are
\* those authenticate computes from that request, that lookup and that
\* call's clock reading alone, and no step of one call changes the request,
\* the timer, the promises or the secret of another.
C20_Alone(r) ==
  Done(r) =>
    LET base == IF obs[r].drainFailed THEN Reject(Pending, DrainError) ELSE Pending
        res == AfterLookup([request[r] EXCEPT !.authenticated = BoolFalse],
                           call[r].data, GetApiKey(request[r]), call[r].inner,
                           obs[r].at)
    IN /\ call[r].outer = Settle(base, res)
       /\ request[r] = res.req

C20_OwnLookup(r) ==
  /\ C9_Decided(obs[r].first) => call[r].inner = C9_FirstOutcome(obs[r].first)
  /\ (obs[r].invoked > 0 /\ obs[r].first.ev = "none") =>
       call[r].inner.state = "pending" /\ call[r].timer = "pending"
  /\ r \notin live => (request[r].authenticated = Undefined /\ call[r] = IdleCall)

C20_Touched(r) ==
  request'[r] # request[r] \/ call'[r] # call[r] \/ obs'[r] # obs[r]

C20_OwnStateOnly ==
  \A r, q \in Reqs : (C20_Touched(r) /\ C20_Touched(q)) => r = q

C20_Independence ==
  /\ [](\A r \in Reqs : C20_Alone(r) /\ C20_OwnLookup(r))
  /\ [][C20_OwnStateOnly]_vars

\* two calls whose lookups began together and were both pending when the
\* deadline came: the delegate then answered one of them, the other timed out
C20_Witness ==
  \E r, q \in Reqs :
    /\ r # q /\ Done(r) /\ Done(q)
    /\ call[r].deadline = call[q].deadline
    /\ SecretYielded(r) /\ obs[r].at >= call[q].deadline
    /\ RejectedWith(r, "DATE_HEADER_INVALID")
    /\ request[r].secret = Str(Secret1)
    /\ obs[q].first.ev = "timeout"
    /\ RejectedWith(q, "INTERNAL_ERROR_SECRET_TIMEOUT")
    /\ request[q].authenticated = BoolFalse
    /\ request[q].secret = Undefined

\* C21: once the delegate has settled the lookup, by invoking the callback,
\* by resolving or rejecting the promise it returned, or by throwing, the
\* timer of _getSecretForKey is cancelled: it is not pending and it never
\* fires.
C21_DelegateSettledFirst(r) ==
  obs[r].first.ev \in {"callback", "resolved", "rejected", "throw"}

C21_TimerCancelled ==
  \A r \in Reqs :
    (obs[r].invoked > 0 /\ C21_DelegateSettledFirst(r)) =>
      call[r].timer = "cleared"

\* C22: a request whose date header does not spell a calendar timestamp is
\* never authenticated and authenticate never resolves for it, also when its
\* key is recognized and its presented signature equals the recomputed one.
C22_UnparsableDate(r) ==
  HasHeader(r, "date") /\ ~DateParse(request[r].headers["date"]).valid

C22_UnparsableDateRejected ==
  \A r \in Reqs :
    C22_UnparsableDate(r) =>
      /\ request[r].authenticated # BoolTrue
      /\ ~ResolvedCall(r)

====
